---- MODULE Spec2Model ----
(***************************************************************************)
(* Docker Image Watch (src/app/main.py): one DockerImageWatch process, the *)
(* container runtime it talks to, and the registry behind the runtime.     *)
(*                                                                         *)
(* Strings that the program inspects (image references, digests, container *)
(* ids, host name) are sequences of one-character strings, so that prefix  *)
(* tests and splits are computed, not assumed.  "s:" stands for the        *)
(* "sha256:" scheme and a one-character tag or hash stands for a longer    *)
(* one.  None and the empty string are both the empty sequence: every test *)
(* the program makes on them is a truthiness test.                         *)
(***************************************************************************)
EXTENDS Integers, Sequences, FiniteSets, TLC

\* ------------------------------------------------------------------ bounds
MaxCycles == 2
MaxPush == 1
MaxPruned == 1
MaxTime == 8
MaxDur == 3
MaxDigests == 2

\* ------------------------------------------------------------- text helpers
None == <<>>

Digit(n) == <<"1", "2", "3", "4", "5", "6", "7", "8", "9">>[n]

StartsWith(s, p) == Len(p) <= Len(s) /\ SubSeq(s, 1, Len(p)) = p

Contains(s, ch) == \E i \in 1..Len(s) : s[i] = ch

\* position of the first / last occurrence of ch in s, 0 when there is none
FirstIndex(s, ch) ==
    IF Contains(s, ch) THEN CHOOSE i \in 1..Len(s) : s[i] = ch /\ \A j \in 1..(i-1) : s[j] # ch
    ELSE 0

LastIndex(s, ch) ==
    IF Contains(s, ch) THEN CHOOSE i \in 1..Len(s) : s[i] = ch /\ \A j \in (i+1)..Len(s) : s[j] # ch
    ELSE 0

\* s.split(ch)[0]
SplitHead(s, ch) == IF Contains(s, ch) THEN SubSeq(s, 1, FirstIndex(s, ch) - 1) ELSE s

\* s.split(ch)[-1]
SplitLast(s, ch) == IF Contains(s, ch) THEN SubSeq(s, LastIndex(s, ch) + 1, Len(s)) ELSE s

ShaScheme == <<"s", ":">>
LatestTag == <<"l">>
Unknown == <<"?">>

\* ------------------------------------------------------------ the runtime
\* Image references of the modelled host: two tags of one official
\* (single-segment) repository.
RefA1 == <<"a", ":", "1">>
RefA2 == <<"a", ":", "2">>
Refs == {RefA1, RefA2}

RepoOf(ref) == SubSeq(ref, 1, LastIndex(ref, ":") - 1)

\* An image is <<repository it was pulled from, content number>>; an image
\* built locally has the empty repository.
ImageId(img) == ShaScheme \o <<Digit(img[2])>>

RepoDigests(img) == IF img[1] = <<>> THEN <<>> ELSE << img[1] \o <<"@">> \o ImageId(img) >>

NoImage == <<>>

\* images.get(name) as the runtime answers it: the image a tag points to,
\* NoImage when nothing carries that tag
Resolve(tags, name) == IF name \in DOMAIN tags THEN tags[name] ELSE NoImage

\* What one image lookup of the program sees: the runtime's answer, or no
\* image when the call fails with ImageNotFound/APIError
Seen(tags, name, mode) == IF mode = "missing" THEN NoImage ELSE Resolve(tags, name)

\* ------------------------------------------------------- update detector
\* DockerImageWatch.get_image_name: first tag of the image the container
\* runs, else Config.Image unless it is a content-hash reference
get_image_name(first_tag, config_image) ==
    IF first_tag # None THEN first_tag
    ELSE IF config_image # <<>> /\ ~StartsWith(config_image, ShaScheme) THEN config_image
    ELSE None

\* One pass of the digest loop of is_local_only_image: TRUE when this digest
\* makes the function return False
DigestHasRegistry(digest, image_name) ==
    LET digest_repo == SplitHead(digest, "@")
        image_base == SplitHead(image_name, ":")
    IN  IF Contains(digest_repo, "/")
        THEN LET first_segment == SplitHead(digest_repo, "/")
             IN  Contains(first_segment, ".") \/ Contains(first_segment, ":")
        ELSE digest_repo = image_base \/ digest_repo = SplitLast(image_base, "/")

\* The except branch of is_local_only_image (image not found locally)
NotFoundLocallyIsLocalOnly(image_name) ==
    LET name_part == SplitHead(image_name, ":")
    IN  IF Contains(name_part, "/")
        THEN LET first_segment == SplitHead(name_part, "/")
             IN  IF Contains(first_segment, ".") \/ Contains(first_segment, ":")
                 THEN FALSE
                 ELSE FALSE
        ELSE FALSE

\* DockerImageWatch.is_local_only_image, lines 503-566; found says whether
\* images.get returned an image, repo_digests is its RepoDigests attribute
IsLocalOnly(image_name, found, repo_digests) ==
    IF image_name = <<>> THEN TRUE
    ELSE IF StartsWith(image_name, ShaScheme) THEN TRUE
    ELSE IF found
         THEN IF repo_digests = <<>> THEN TRUE
              ELSE ~ \E i \in 1..Len(repo_digests) :
                        DigestHasRegistry(repo_digests[i], image_name)
         ELSE NotFoundLocallyIsLocalOnly(image_name)

\* DockerImageWatch.is_local_only_image; image is what images.get returned
is_local_only_image(image_name, image) ==
    IsLocalOnly(image_name, image # NoImage,
                IF image = NoImage THEN <<>> ELSE RepoDigests(image))

\* DockerImageWatch.get_image_digest
get_image_digest(image) ==
    IF image = NoImage THEN None
    ELSE IF RepoDigests(image) # <<>> THEN RepoDigests(image)[1]
    ELSE ImageId(image)

\* The messages a failed pull can carry, and the phrases each contains
PullErrors ==
    {"repository does not exist", "pull access denied", "manifest not found",
     "Not Found", "server error"}

Lower(msg) == IF msg = "Not Found" THEN "not found" ELSE msg

MsgContains(msg, phrase) ==
    \/ msg = phrase
    \/ msg = "manifest not found" /\ phrase = "not found"

\* repo, tag = image_name.rsplit(':', 1), joined again as the runtime does
PullTarget(image_name) ==
    IF Contains(image_name, ":")
    THEN SubSeq(image_name, 1, LastIndex(image_name, ":") - 1) \o <<":">>
         \o SubSeq(image_name, LastIndex(image_name, ":") + 1, Len(image_name))
    ELSE image_name \o <<":">> \o LatestTag

\* DockerImageWatch.pull_image: <<success, is_local_only>> for the outcome
\* of the runtime's pull ("ok" or the message of its APIError)
pull_image(outcome) ==
    IF outcome = "ok" THEN <<TRUE, FALSE>>
    ELSE IF MsgContains(outcome, "repository does not exist")
            \/ MsgContains(outcome, "pull access denied") THEN <<FALSE, TRUE>>
    ELSE IF MsgContains(Lower(outcome), "not found") THEN <<FALSE, TRUE>>
    ELSE <<FALSE, FALSE>>

\* The runtime's pull: the tag now points to the registry's image
Pulled(tags, reg, image_name) ==
    IF PullTarget(image_name) \in DOMAIN reg
    THEN [tags EXCEPT ![PullTarget(image_name)] = reg[PullTarget(image_name)]]
    ELSE tags

\* How the runtime calls of one check can go.  name: resolving the image of
\* the container; cls, d1, d2: the image lookups of the classifier and of the
\* two digest reads ("missing" is ImageNotFound/APIError, which those
\* functions catch themselves); pull: the pull.  A call that is not reached
\* is listed as "ok": only distinguishable schedules are enumerated.
Exceptions == {"APIError", "Other"}

LookupModes == {"ok", "missing", "Other"}

CheckFault(name, cls, d1, pull, d2) == [name |-> name, cls |-> cls, d1 |-> d1, pull |-> pull, d2 |-> d2]

CheckFaults ==
    {CheckFault(e, "ok", "ok", "ok", "ok") : e \in Exceptions}
    \cup {CheckFault("ok", "Other", "ok", "ok", "ok")}
    \cup {CheckFault("ok", cls, "Other", "ok", "ok") : cls \in {"ok", "missing"}}
    \cup {CheckFault("ok", cls, d1, p, "ok") :
            cls \in {"ok", "missing"}, d1 \in {"ok", "missing"}, p \in PullErrors \cup {"Other"}}
    \cup {CheckFault("ok", cls, d1, "ok", d2) :
            cls \in {"ok", "missing"}, d1 \in {"ok", "missing"}, d2 \in LookupModes}

NoFault == CheckFault("ok", "ok", "ok", "ok", "ok")

\* A pull can only succeed for a reference the registry serves
PullPossible(reg, image_name, F) ==
    F.pull = "ok" => (image_name = None \/ PullTarget(image_name) \in DOMAIN reg)

\* What a check leaves behind: its return value, whether an exception left
\* the function, the tags after it, and what it read on the way
CheckResult(result, stage, tags, image_name, pull, old, new) ==
    [result |-> result, propagated |-> FALSE, raised |-> "none", stage |-> stage,
     tags |-> tags, image_name |-> image_name, pull |-> pull, old |-> old, new |-> new]

\* An except clause that lets everything but APIError through
CheckExceptOnlyAPIError(exc, stage, tags, image_name, pull, old) ==
    [CheckResult("error", stage, tags, image_name, pull, old, None)
        EXCEPT !.propagated = (exc # "APIError"), !.raised = exc]

\* except Exception of check_for_update_with_status
CheckExcept(exc, stage, tags, image_name, pull, old) ==
    [CheckResult("error", stage, tags, image_name, pull, old, None) EXCEPT !.raised = exc]

\* A comparison that forgets that a missing digest is no evidence
DigestsDifferLoose(old_digest, new_digest) == old_digest # new_digest

\* the comparison of the two digests
DigestsDiffer(old_digest, new_digest) ==
    old_digest # None /\ new_digest # None /\ old_digest # new_digest

NoPull == <<>>

\* DockerImageWatch.check_for_update_with_status for container c whose image
\* lists first_tag first, on a host with these tags and this registry
check_for_update_with_status(c, first_tag, tags, reg, F) ==
    LET image_name == get_image_name(first_tag, c.cfgImage)
    IN
    IF F.name # "ok" THEN CheckExcept(F.name, "name", tags, None, NoPull, None)
    ELSE IF image_name = None
         THEN CheckResult("skipped", "name", tags, None, NoPull, None, None)
    ELSE IF F.cls = "Other" THEN CheckExcept("Other", "classify", tags, image_name, NoPull, None)
    ELSE IF is_local_only_image(image_name, Seen(tags, image_name, F.cls))
         THEN CheckResult("skipped", "classify", tags, image_name, NoPull, None, None)
    ELSE IF F.d1 = "Other" THEN CheckExcept("Other", "digest1", tags, image_name, NoPull, None)
    ELSE
    LET old_digest == get_image_digest(Seen(tags, image_name, F.d1))
    IN
    IF F.pull = "Other" THEN CheckExcept("Other", "pull", tags, image_name, NoPull, old_digest)
    ELSE
    LET pulled == pull_image(F.pull)
        tags1 == IF pulled[1] THEN Pulled(tags, reg, image_name) ELSE tags
    IN
    IF ~pulled[1]
    THEN CheckResult(IF pulled[2] THEN "skipped" ELSE "error", "pull", tags, image_name,
                     pulled, old_digest, None)
    ELSE IF F.d2 = "Other"
         THEN CheckExcept("Other", "digest2", tags1, image_name, pulled, old_digest)
    ELSE
    LET new_digest == get_image_digest(Seen(tags1, image_name, F.d2))
    IN  CheckResult(IF DigestsDiffer(old_digest, new_digest) THEN "update_available"
                    ELSE "up_to_date",
                    "compare", tags1, image_name, pulled, old_digest, new_digest)

\* ------------------------------------------------------------------ state
VARIABLES
    containers,             \* runtime: name -> container (removed ones are absent)
    localTag,               \* runtime: image reference -> image it points to locally
    registry,               \* registry: image reference -> image it serves
    pushes,                 \* images published so far
    created,                \* containers created so far (ids are never reused)
    hostname,               \* self.hostname
    self_container_name,    \* self.self_container_name
    self_update_available,  \* self.self_update_available
    self_container_image,   \* self.self_container_image
    pc,                     \* where run_update_cycle stands
    todo,                   \* containers of the listing still to visit
    cur,                    \* container being recreated
    report,                 \* the UpdateCycleReport of the cycle
    cycle,                  \* cycles started
    log,                    \* history: runtime calls and decisions of this cycle
    sent,                   \* history: reports handed to send_webhook this cycle
    chk,                    \* history: the last check made on its own
    env,                    \* configuration read from the environment
    running,                \* self.running
    pcRun,                  \* where run() stands
    now,                    \* the clock (datetime.now())
    cron_schedule,          \* cron_schedule of run()
    cron,                   \* the croniter: its schedule and the instant it stands at
    next_run,               \* next_run of run()
    wait_seconds,           \* wait_seconds of run()
    hist,                   \* history: cycle starts, returns, sleeps, signal
    hook                    \* history: the last send_webhook call made on its own

vars ==
    <<containers, localTag, registry, pushes, created, hostname, self_container_name,
      self_update_available, self_container_image, pc, todo, cur, report, cycle, log,
      sent, chk, env, running, pcRun, now, cron_schedule, cron, next_run, wait_seconds,
      hist, hook>>

\* what run(), the signal handler and send_webhook work on
procVars ==
    <<env, running, pcRun, now, cron_schedule, cron, next_run, wait_seconds, hist, hook>>

W == <<"w">>
X == <<"x">>
Names == {W, X}

ImgA == <<<<"a">>, 1>>
FirstNewImage == ImgA[2] + 1

\* first character of the id of a container created by the Recreator
NewIdChar == "n"
\* length of a short id (line 328: hostname[:12], container.short_id); ids
\* are two characters long here, the short id is the first of them
ShortIdLen == 1

short_id(id) == SubSeq(id, 1, ShortIdLen)

Container(id, img, cfgImage, disabled) ==
    [id |-> id, img |-> img, cfgImage |-> cfgImage, disabled |-> disabled, running |-> TRUE]

Running(cs) == {n \in DOMAIN cs : cs[n].running}

\* the orders in which a listing can return the containers of S
Orders(S) ==
    {o \in [1..Cardinality(S) -> S] : \A i, j \in 1..Cardinality(S) : o[i] = o[j] => i = j}

\* container.image.tags: the references that point to the image
TagsOf(tags, img) == {r \in DOMAIN tags : tags[r] = img}

\* the values tags[0] can take (None when the image carries no tag)
FirstTags(tags, img) == IF TagsOf(tags, img) = {} THEN {None} ELSE TagsOf(tags, img)

\* ------------------------------------------------------------ self identity
\* containers.get(ident): the one container whose id starts with ident or
\* whose name is ident; None when there is none or the prefix is ambiguous
GetContainer(cs, ident) ==
    LET hits == {n \in DOMAIN cs : StartsWith(cs[n].id, ident) \/ n = ident}
    IN  IF Cardinality(hits) = 1 THEN CHOOSE n \in hits : TRUE ELSE None

\* what containers.list() gave: the containers in some order, or APIError
Listing(ok, items) == [ok |-> ok, items |-> items]

\* what inspect_container gave for one container: Config.Hostname, or
\* APIError
Inspected(ok, cfg_hostname) == [ok |-> ok, hostname |-> cfg_hostname]

\* A resolver that asks CONTAINER_NAME first
SelfContainerNameExplicitFirst(cs, env_hostname, explicit_name, m1, listing, inspect) ==
    IF explicit_name # <<>> THEN explicit_name
    ELSE IF env_hostname # <<>> /\ m1 = "ok" /\ GetContainer(cs, env_hostname) # None
    THEN GetContainer(cs, env_hostname)
    ELSE None

\* DockerImageWatch._get_self_container_name, lines 287-321.  env_hostname
\* and explicit_name are os.environ.get('HOSTNAME', '') and CONTAINER_NAME;
\* m1 says whether containers.get answers ("ok") or fails with APIError;
\* listing and inspect are what method 3 gets from the runtime.
SelfContainerName(cs, env_hostname, explicit_name, m1, listing, inspect) ==
    IF env_hostname # <<>> /\ m1 = "ok" /\ GetContainer(cs, env_hostname) # None
    THEN GetContainer(cs, env_hostname)
    ELSE IF explicit_name # <<>> THEN explicit_name
    ELSE IF ~listing.ok THEN None
    ELSE LET hits == {i \in DOMAIN listing.items :
                        /\ inspect[listing.items[i]].ok
                        /\ inspect[listing.items[i]].hostname = env_hostname}
         IN  IF hits = {} THEN None
             ELSE listing.items[CHOOSE i \in hits : \A j \in hits : i <= j]

\* the same when every inspect_container answers; m3 says whether
\* containers.list answers, cfgHost gives Config.Hostname of each container
get_self_container_name(cs, env_hostname, explicit_name, m1, m3, cfgHost) ==
    SelfContainerName(cs, env_hostname, explicit_name, m1,
                      Listing(m3 = "ok", CHOOSE o \in Orders(Running(cs)) : TRUE),
                      [n \in DOMAIN cs |-> Inspected(TRUE, cfgHost[n])])

\* DockerImageWatch._is_self_container
is_self_container(name, id, self_name, host) ==
    IF self_name # None THEN name = self_name
    ELSE StartsWith(id, host)
         \/ short_id(id) = SubSeq(host, 1, IF Len(host) < ShortIdLen THEN Len(host) ELSE ShortIdLen)

\* ------------------------------------------------------------------ report
EmptyReport ==
    [containers_checked |-> 0, containers_updated |-> 0, containers_skipped |-> 0,
     containers_failed |-> 0, images_cleaned |-> 0, duration |-> "unset",
     container_reports |-> <<>>, errors |-> <<>>]

ContainerReport(name, image, status, message) ==
    [name |-> name, image |-> image, status |-> status, message |-> message]

Event(op, name, id, res, self) ==
    [op |-> op, name |-> name, id |-> id, res |-> res, self |-> self, ref |-> None]

CheckEvent(name, id, res, self, ref) ==
    [op |-> "check", name |-> name, id |-> id, res |-> res, self |-> self, ref |-> ref]

NoChk == <<>>

NoHook == <<>>

\* ------------------------------------------------------------ the process
\* one minute, the granularity of a cron schedule, in ticks of the clock
Minute == 2

\* A schedule fires at the multiples of its period.  "* * * * *" fires every
\* minute, the other schedule less often than a wait slice is long.
Periods == {Minute, 2 * Minute + 1}

\* line 981: the period of the default schedule "0 4 * * *" (once a day,
\* shortened to the longer of the two periods)
DefaultPeriod == 2 * Minute + 1

\* A schedule expression: whether croniter accepts it, and its period
Schedule(ok, period) == [ok |-> ok, period |-> period]

DefaultSchedule == Schedule(TRUE, DefaultPeriod)

NoCron == <<>>

\* DockerImageWatch.__init__, lines 268-273, and run, lines 981-1002: what
\* the process reads from its environment
Environment(period, run_on_startup, url, on_update, on_error, always) ==
    [period |-> period, schedule_ok |-> TRUE, run_on_startup |-> run_on_startup,
     webhook_url |-> url, webhook_on_update |-> on_update,
     webhook_on_error |-> on_error, webhook_always |-> always]

\* the defaults of lines 268-273 and 1002, with a webhook URL set and a
\* schedule of every minute
DefaultEnv == Environment(Minute, FALSE, <<"u">>, TRUE, TRUE, FALSE)

NoHist ==
    [calls |-> 0, start |-> <<>>, lastReturn |-> -1, slept |-> 0,
     signalAt |-> -1, signalPc |-> "none", signalCycle |-> "none", signalCount |-> 0,
     fallback |-> FALSE]

\* lines 265 and 978: the process before run() has done anything
InitProcess(e) ==
    /\ env = e
    /\ running = TRUE
    /\ pcRun = "init"
    /\ now = 0
    /\ cron_schedule = None
    /\ cron = NoCron
    /\ next_run = 0
    /\ wait_seconds = 0
    /\ hist = NoHist
    /\ hook = NoHook

\* --------------------------------------------------------------- start-up
\* HOSTNAME of the process: the short id of container w when it runs in w,
\* a name of its own when it runs outside the listed containers.  Every
\* container has the default Config.Hostname (its short id) and
\* CONTAINER_NAME is not set.
HostNames == {<<"1">>, <<"h">>}

InitHost ==
    /\ \/ \E wd, xd \in BOOLEAN :
          /\ ~(wd /\ xd)
          /\ \E xp \in {<<ImgA, RefA1>>, <<ImgA, RefA2>>, <<ImgA, ImageId(ImgA)>>} :
             /\ containers = [n \in Names |->
                                IF n = W THEN Container(<<"1", "1">>, ImgA, RefA1, wd)
                                ELSE Container(<<"2", "1">>, xp[1], xp[2], xd)]
             /\ \/ localTag = [r \in Refs |-> ImgA]
                \/ /\ xp[2] # RefA2
                   /\ localTag = [r \in Refs |-> IF r = RefA1 THEN ImgA ELSE NoImage]
       \/ \* a host on which no container is running
          /\ containers = [n \in Names |->
                             [Container(IF n = W THEN <<"1", "1">> ELSE <<"2", "1">>,
                                        ImgA, RefA1, FALSE) EXCEPT !.running = FALSE]]
          /\ localTag = [r \in Refs |-> ImgA]
    /\ registry = [r \in Refs |-> ImgA]
    /\ pushes = 0
    /\ created = 1
    /\ hostname \in HostNames
    /\ Running(containers) = {} => hostname = <<"h">>
    /\ \E m1, m3 \in {"ok", "APIError"} :
          self_container_name =
             get_self_container_name(containers, hostname, <<>>, m1, m3,
                                     [n \in Names |-> short_id(containers[n].id)])
    /\ self_update_available = FALSE
    /\ self_container_image = None
    /\ pc = "idle"
    /\ todo = <<>>
    /\ cur = None
    /\ report = EmptyReport
    /\ cycle = 0
    /\ log = <<>>
    /\ sent = <<>>
    /\ chk = NoChk

Init == InitHost /\ InitProcess(DefaultEnv)

\* ------------------------------------------------------------ environment
\* Somebody publishes a new image under reference r.  The registry is read
\* only by a pull, so a push is observed only between two visits.
RegistryPush(r) ==
    /\ pc = "idle" \/ (pc = "loop" /\ todo # <<>>)
    /\ pushes < MaxPush
    /\ pushes' = pushes + 1
    /\ registry' = [registry EXCEPT ![r] = <<RepoOf(r), FirstNewImage + pushes>>]
    /\ UNCHANGED <<containers, localTag, created, hostname, self_container_name,
                   self_update_available, self_container_image, pc, todo, cur, report,
                   cycle, log, sent, chk, procVars>>

\* ------------------------------------------------------- run_update_cycle
ErrorMessage(exc) ==
    IF exc = "APIError" THEN "Docker API error during update cycle"
    ELSE "Unexpected error during update cycle"

\* A handler that swallows the exception
AbortedUnrecorded(rep, exc) == rep

\* the two except clauses of run_update_cycle
Aborted(rep, exc) == [rep EXCEPT !.errors = Append(@, ErrorMessage(exc))]

\* lines 726-761: new report, listing, early return on an empty listing,
\* reset of the self-update tracking
StartCycleWith(excs) ==
    /\ pc = "idle"
    /\ cycle < MaxCycles
    /\ cycle' = cycle + 1
    /\ cur' = None
    /\ \E listing \in {"ok"} \cup excs :
       IF listing # "ok"
       THEN /\ report' = Aborted(EmptyReport, listing)
            /\ pc' = "finalize"
            /\ todo' = <<>>
            /\ log' = <<Event("list", None, None, listing, FALSE)>>
            /\ sent' = <<>>
            /\ UNCHANGED <<self_update_available, self_container_image>>
       ELSE IF Running(containers) = {}
       THEN /\ report' = [EmptyReport EXCEPT !.duration = "stamped"]
            /\ pc' = "return"
            /\ todo' = <<>>
            /\ log' = <<Event("list", None, None, "empty", FALSE),
                        Event("webhook", None, None, "sent", FALSE)>>
            /\ sent' = <<report'>>
            /\ UNCHANGED <<self_update_available, self_container_image>>
       ELSE /\ report' = EmptyReport
            /\ pc' = "loop"
            /\ todo' \in Orders(Running(containers))
            /\ log' = <<Event("list", None, None, "ok", FALSE)>>
            /\ sent' = <<>>
            /\ self_update_available' = FALSE
            /\ self_container_image' = None
    /\ UNCHANGED <<containers, localTag, registry, pushes, created, hostname,
                   self_container_name, chk, procVars>>

\* A loop that forgets the continue of the self branch
NeedsRecreateAlsoSelf(is_self, update_result) == update_result = "update_available"

\* lines 765, 800, 831-833: the Recreator runs for a foreign container with
\* an update, never for the self container
NeedsRecreate(is_self, update_result) == ~is_self /\ update_result = "update_available"

\* lines 773-799: what the self branch adds to the report
SelfReported(rep, name, image_name, update_result) ==
    IF update_result = "update_available"
    THEN [rep EXCEPT !.containers_checked = @ + 1,
                     !.container_reports = Append(@, ContainerReport(name, image_name,
                                              "pending-restart", "self-update: restart required"))]
    ELSE IF update_result = "up_to_date"
    THEN [rep EXCEPT !.containers_checked = @ + 1,
                     !.container_reports = Append(@, ContainerReport(name, image_name,
                                              "up-to-date", "(self)"))]
    ELSE IF update_result = "skipped"
    THEN [rep EXCEPT !.containers_skipped = @ + 1,
                     !.container_reports = Append(@, ContainerReport(name, image_name,
                                              "skipped", "local-only image (self)"))]
    ELSE rep

\* lines 823-830, 849-863: what a foreign container that is not recreated
\* adds to the report (containers_checked was counted at line 802)
ForeignReported(rep, name, image_name, update_result) ==
    IF update_result = "skipped"
    THEN [rep EXCEPT !.containers_skipped = @ + 1,
                     !.container_reports = Append(@, ContainerReport(name, image_name,
                                              "skipped", "local-only image"))]
    ELSE IF update_result = "up_to_date"
    THEN [rep EXCEPT !.container_reports = Append(@, ContainerReport(name, image_name,
                                              "up-to-date", ""))]
    ELSE IF update_result = "error"
    THEN [rep EXCEPT !.containers_failed = @ + 1,
                     !.container_reports = Append(@, ContainerReport(name, image_name,
                                              "error", "error checking for updates"))]
    ELSE rep

\* lines 807-815
DisabledReported(rep, name, image_name) ==
    [rep EXCEPT !.containers_skipped = @ + 1,
                !.container_reports = Append(@, ContainerReport(name, image_name,
                                         "skipped", "disabled by label"))]

\* lines 763-863 for the next container of the listing, up to the call of
\* the Recreator.  name_exc is how the loop's own get_image_name goes, F how
\* the runtime calls of the check go.
VisitContainerWith(excs, faults) ==
    /\ pc = "loop"
    /\ todo # <<>>
    /\ LET n == Head(todo)
           c == containers[n]
           is_self == is_self_container(n, c.id, self_container_name, hostname)
       IN
       \E first_tag \in FirstTags(localTag, c.img), name_exc \in {"ok"} \cup excs :
       LET named == get_image_name(first_tag, c.cfgImage)
           image_name == IF named # None THEN named ELSE Unknown
           counted == IF is_self THEN report
                      ELSE [report EXCEPT !.containers_checked = @ + 1]
       IN
       IF name_exc # "ok"
       THEN \* get_image_name raised: the cycle-level handler takes over
            /\ report' = Aborted(counted, name_exc)
            /\ pc' = "finalize"
            /\ log' = Append(log, Event("visit", n, c.id, name_exc, is_self))
            /\ UNCHANGED <<todo, cur, localTag, self_update_available, self_container_image>>
       ELSE IF ~is_self /\ c.disabled
       THEN /\ report' = DisabledReported(counted, n, image_name)
            /\ pc' = "loop"
            /\ todo' = Tail(todo)
            /\ log' = Append(log, Event("disabled", n, c.id, "skipped", is_self))
            /\ UNCHANGED <<cur, localTag, self_update_available, self_container_image>>
       ELSE
       \E F \in faults :
       LET o == check_for_update_with_status(c, first_tag, localTag, registry, F)
       IN
       /\ PullPossible(registry, named, F)
       /\ localTag' = o.tags
       /\ IF o.propagated
          THEN /\ report' = Aborted(counted, "Other")
               /\ pc' = "finalize"
               /\ log' = Append(log, CheckEvent(n, c.id, "raised", is_self, o.image_name))
               /\ UNCHANGED <<todo, cur, self_update_available, self_container_image>>
          ELSE
          /\ log' = Append(log, CheckEvent(n, c.id, o.result, is_self, o.image_name))
          /\ IF NeedsRecreate(is_self, o.result)
             THEN /\ pc' = "recreate_stop"
                  /\ cur' = <<n, image_name>>
                  /\ report' = counted
                  /\ todo' = todo
                  /\ UNCHANGED <<self_update_available, self_container_image>>
             ELSE /\ pc' = "loop"
                  /\ cur' = cur
                  /\ todo' = Tail(todo)
                  /\ report' = IF is_self
                               THEN SelfReported(counted, n, image_name, o.result)
                               ELSE ForeignReported(counted, n, image_name, o.result)
                  /\ self_update_available' =
                        (self_update_available \/ (is_self /\ o.result = "update_available"))
                  /\ self_container_image' =
                        IF is_self /\ o.result = "update_available" THEN image_name
                        ELSE self_container_image
    /\ UNCHANGED <<containers, registry, pushes, created, hostname, self_container_name,
                   cycle, sent, chk, procVars>>

\* ----------------------------------------------------- recreate_container
\* A loop that ignores the Recreator's return value
RecreatedIgnoringResult(rep, name, image_name, ok) ==
    [rep EXCEPT !.containers_updated = @ + 1,
                !.container_reports = Append(@, ContainerReport(name, image_name,
                                         "updated", "successfully updated"))]

\* lines 833-848: what the Recreator's return value adds to the report
Recreated(rep, name, image_name, ok) ==
    IF ok
    THEN [rep EXCEPT !.containers_updated = @ + 1,
                     !.container_reports = Append(@, ContainerReport(name, image_name,
                                              "updated", "successfully updated"))]
    ELSE [rep EXCEPT !.containers_failed = @ + 1,
                     !.container_reports = Append(@, ContainerReport(name, image_name,
                                              "error", "failed to recreate container"))]

\* A failed recreation that the cycle does not report
RecreateFailedUnreported(step) ==
    /\ report' = report
    /\ log' = log \o <<Event(step, cur[1], containers[cur[1]].id, "fail", FALSE),
                       Event("recreate", cur[1], containers[cur[1]].id, "false", FALSE)>>
    /\ pc' = "loop"
    /\ todo' = Tail(todo)
    /\ cur' = None

\* the except clause of recreate_container, then lines 841-848
RecreateFailed(step) ==
    /\ report' = Recreated(report, cur[1], cur[2], FALSE)
    /\ log' = log \o <<Event(step, cur[1], containers[cur[1]].id, "fail", FALSE),
                       Event("recreate", cur[1], containers[cur[1]].id, "false", FALSE)>>
    /\ pc' = "loop"
    /\ todo' = Tail(todo)
    /\ cur' = None

\* line 664: container.stop(timeout=30).  A failed stop leaves the container
\* running or stopped.
RecreateStopWith(fails) ==
    /\ pc = "recreate_stop"
    /\ \E r \in {"ok"} \cup fails :
       /\ containers' = IF r = "fail" THEN containers
                        ELSE [containers EXCEPT ![cur[1]].running = FALSE]
       /\ IF r = "ok"
          THEN /\ pc' = "recreate_remove"
               /\ log' = Append(log, Event("stop", cur[1], containers[cur[1]].id, "ok", FALSE))
               /\ UNCHANGED <<report, todo, cur>>
          ELSE RecreateFailed("stop")
    /\ UNCHANGED <<localTag, registry, pushes, created, hostname, self_container_name,
                   self_update_available, self_container_image, cycle, sent, chk, procVars>>

\* line 668: container.remove()
RecreateRemoveWith(fails) ==
    /\ pc = "recreate_remove"
    /\ \E r \in {"ok"} \cup fails :
       IF r = "ok"
       THEN /\ pc' = "recreate_create"
            /\ containers' = [n \in DOMAIN containers \ {cur[1]} |-> containers[n]]
            /\ cur' = <<cur[1], cur[2], containers[cur[1]]>>
            /\ log' = Append(log, Event("remove", cur[1], containers[cur[1]].id, "ok", FALSE))
            /\ UNCHANGED <<report, todo>>
       ELSE /\ RecreateFailed("remove")
            /\ UNCHANGED containers
    /\ UNCHANGED <<localTag, registry, pushes, created, hostname, self_container_name,
                   self_update_available, self_container_image, cycle, sent, chk, procVars>>

\* the image the runtime finds under a content-hash reference
ImageById(tags, old, ref) ==
    IF ImageId(old.img) = ref THEN old.img
    ELSE IF \E r \in DOMAIN tags : tags[r] # NoImage /\ ImageId(tags[r]) = ref
    THEN tags[CHOOSE r \in DOMAIN tags : tags[r] # NoImage /\ ImageId(tags[r]) = ref]
    ELSE NoImage

\* line 580: the image the creation request names is Config.Image of the
\* old container; this is the image the runtime creates the container from
CreateImage(tags, old) ==
    IF StartsWith(old.cfgImage, ShaScheme) THEN ImageById(tags, old, old.cfgImage)
    ELSE Resolve(tags, old.cfgImage)

\* lines 583-660, 672: containers.run(**container_config); the new container
\* has the name, Config.Image and labels of the old one and an id of its own.
\* run creates the container and then starts it: a failure leaves nothing
\* ("fail") or the new container, created and not started ("fail_created").
RecreateCreateWith(fails) ==
    /\ pc = "recreate_create"
    /\ LET old == cur[3]
           img == CreateImage(localTag, old)
       IN
       \E r \in {"ok"} \cup fails :
       LET p == NewIdChar
       IN
       IF r = "ok" /\ img # NoImage
       THEN /\ containers' =
                 [n \in DOMAIN containers \cup {cur[1]} |->
                     IF n = cur[1]
                     THEN Container(<<p, Digit(created + 1)>>, img, old.cfgImage, old.disabled)
                     ELSE containers[n]]
            /\ created' = created + 1
            /\ report' = Recreated(report, cur[1], cur[2], TRUE)
            /\ log' = log \o <<Event("create", cur[1], <<p, Digit(created + 1)>>, "ok", FALSE),
                               Event("recreate", cur[1], old.id, "true", FALSE)>>
       ELSE IF r = "fail_created" /\ img # NoImage
       THEN /\ containers' =
                 [n \in DOMAIN containers \cup {cur[1]} |->
                     IF n = cur[1]
                     THEN [Container(<<p, Digit(created + 1)>>, img, old.cfgImage, old.disabled)
                              EXCEPT !.running = FALSE]
                     ELSE containers[n]]
            /\ created' = created + 1
            /\ report' = Recreated(report, cur[1], cur[2], FALSE)
            /\ log' = log \o <<Event("create", cur[1], <<p, Digit(created + 1)>>, "fail", FALSE),
                               Event("recreate", cur[1], old.id, "false", FALSE)>>
       ELSE /\ report' = Recreated(report, cur[1], cur[2], FALSE)
            /\ log' = log \o <<Event("create", cur[1], old.id, "fail", FALSE),
                               Event("recreate", cur[1], old.id, "false", FALSE)>>
            /\ UNCHANGED <<containers, created>>
    /\ pc' = "loop"
    /\ todo' = Tail(todo)
    /\ cur' = None
    /\ UNCHANGED <<localTag, registry, pushes, hostname, self_container_name,
                   self_update_available, self_container_image, cycle, sent, chk, procVars>>

\* ------------------------------------------------ cleanup, report, restart
\* DockerImageWatch.cleanup_unused_images: dangling and broad are the numbers
\* of images the two prune calls delete, fail says which call raised APIError
cleanup_unused_images(dangling, broad, fail) ==
    IF fail = "first" THEN 0
    ELSE IF fail = "second" THEN dangling
    ELSE dangling + broad

\* lines 865-883, after the last container of the listing
CleanupWith(fails) ==
    /\ pc = "loop"
    /\ todo = <<>>
    /\ \E dangling, broad \in {0, MaxPruned}, fail \in {"none"} \cup fails :
       /\ report' =
             IF fail = "Other" THEN Aborted(report, "Other")
             ELSE [report EXCEPT
                      !.images_cleaned = cleanup_unused_images(dangling, broad, fail),
                      !.containers_updated = IF self_update_available THEN @ + 1 ELSE @]
       /\ log' = Append(log, Event("cleanup", None, None,
                                   IF fail = "Other" THEN "raised" ELSE "done", FALSE))
    /\ pc' = "finalize"
    /\ UNCHANGED <<containers, localTag, registry, pushes, created, hostname,
                   self_container_name, self_update_available, self_container_image,
                   todo, cur, cycle, sent, chk, procVars>>

\* lines 894-901: stamp the duration, hand the report to send_webhook
Finalize ==
    /\ pc = "finalize"
    /\ report' = [report EXCEPT !.duration = "stamped"]
    /\ sent' = Append(sent, report')
    /\ log' = Append(log, Event("webhook", None, None, "sent", FALSE))
    /\ pc' = IF self_update_available THEN "self_restart" ELSE "return"
    /\ UNCHANGED <<containers, localTag, registry, pushes, created, hostname,
                   self_container_name, self_update_available, self_container_image,
                   todo, cur, cycle, chk, procVars>>

\* DockerImageWatch._perform_self_restart.  get and stop say how the two
\* runtime calls go; a container stopped by the call is the one the process
\* runs in (the process ends) or another one (the call returns).
SelfRestartWith(excs) ==
    /\ pc = "self_restart"
    /\ IF self_container_name = None
       THEN /\ log' = Append(log, Event("self_restart", None, None, "name unknown", TRUE))
            /\ pc' = "return"
            /\ UNCHANGED containers
       ELSE
       \E get \in {"ok"} \cup excs :
       LET m == GetContainer(containers, self_container_name)
       IN
       IF get # "ok" \/ m = None
       THEN /\ log' = Append(log, Event("self_restart", self_container_name, None,
                                        IF get = "ok" THEN "NotFound" ELSE get, TRUE))
            /\ pc' = "return"
            /\ UNCHANGED containers
       ELSE
       \E stop \in {"ok"} \cup excs :
       /\ log' = Append(log, Event("self_stop", m, containers[m].id, stop, TRUE))
       /\ IF stop = "ok"
          THEN /\ containers' = [containers EXCEPT ![m].running = FALSE]
               /\ pc' \in {"exited", "return"}
          ELSE /\ pc' = "return"
               /\ UNCHANGED containers
    /\ UNCHANGED <<localTag, registry, pushes, created, hostname, self_container_name,
                   self_update_available, self_container_image, todo, cur, report, cycle,
                   sent, chk, procVars>>

\* run_update_cycle returns: its report is dropped with its frame (the
\* history of the cycle is dropped with it)
Return ==
    /\ pc = "return"
    /\ pc' = "idle"
    /\ report' = EmptyReport
    /\ log' = <<>>
    /\ sent' = <<>>
    /\ UNCHANGED <<containers, localTag, registry, pushes, created, hostname,
                   self_container_name, self_update_available, self_container_image,
                   todo, cur, cycle, chk, procVars>>

\* The steps of a cycle with every way the runtime can fail
StartCycle == StartCycleWith(Exceptions)

VisitContainer == VisitContainerWith(Exceptions, CheckFaults)

RecreateStop == RecreateStopWith({"fail", "fail_stopped"})

RecreateRemove == RecreateRemoveWith({"fail"})

RecreateCreate == RecreateCreateWith({"fail", "fail_created"})

Cleanup == CleanupWith({"first", "second", "Other"})

SelfRestart == SelfRestartWith(Exceptions)

Next ==
    \/ \E r \in Refs : RegistryPush(r)
    \/ StartCycle
    \/ VisitContainer
    \/ RecreateStop
    \/ RecreateRemove
    \/ RecreateCreate
    \/ Cleanup
    \/ Finalize
    \/ SelfRestart
    \/ Return

Spec == Init /\ [][Next]_vars

\* ---------------------------------------------- cycles without a failure
\* The same steps when every runtime call succeeds and images are published
\* only between two cycles
NextClean ==
    \/ \E r \in Refs : pc = "idle" /\ RegistryPush(r)
    \/ StartCycleWith({})
    \/ VisitContainerWith({}, {NoFault})
    \/ RecreateStopWith({})
    \/ RecreateRemoveWith({})
    \/ RecreateCreateWith({})
    \/ CleanupWith({})
    \/ Finalize
    \/ SelfRestartWith({})
    \/ Return

SpecClean == Init /\ [][NextClean]_vars

\* ------------------------------------------------- the detector on its own
\* A host with more kinds of image: a namespaced repository, an image built
\* locally (no repository digest, not in any registry) and an image that has
\* lost its tag
RefU1 == <<"u", "/", "a", ":", "1">>
RefL1 == <<"b", ":", "1">>
ImgU == <<<<"u", "/", "a">>, 7>>
ImgL == <<<<>>, 8>>
ImgOld == <<<<"a">>, 9>>

DetectProfiles ==
    {<<ImgA, RefA1>>, <<ImgA, ImageId(ImgA)>>, <<ImgU, RefU1>>, <<ImgL, RefL1>>,
     <<ImgOld, RefA1>>, <<ImgOld, ImageId(ImgOld)>>}

InitDetect ==
    /\ \E xp \in DetectProfiles : containers = [n \in {X} |-> Container(<<"2", "1">>, xp[1], xp[2], FALSE)]
    /\ localTag = [r \in Refs \cup {RefU1, RefL1} |->
                      IF r = RefU1 THEN ImgU ELSE IF r = RefL1 THEN ImgL ELSE ImgA]
    /\ registry = [r \in Refs \cup {RefU1} |-> IF r = RefU1 THEN ImgU ELSE ImgA]
    /\ pushes = 0
    /\ created = 1
    /\ hostname = <<"h">>
    /\ self_container_name = None
    /\ self_update_available = FALSE
    /\ self_container_image = None
    /\ pc = "idle"
    /\ todo = <<>>
    /\ cur = None
    /\ report = EmptyReport
    /\ cycle = 0
    /\ log = <<>>
    /\ sent = <<>>
    /\ chk = NoChk
    /\ InitProcess(DefaultEnv)

\* One call of check_for_update_with_status, with what it read and returned
DetectCheck ==
    /\ pc = "idle"
    /\ \E n \in DOMAIN containers :
       \E first_tag \in FirstTags(localTag, containers[n].img), F \in CheckFaults :
       LET o == check_for_update_with_status(containers[n], first_tag, localTag, registry, F)
       IN
       /\ PullPossible(registry, get_image_name(first_tag, containers[n].cfgImage), F)
       /\ localTag' = o.tags
       /\ chk' = [o EXCEPT !.tags = None] @@ [F |-> F]
    /\ UNCHANGED <<containers, registry, pushes, created, hostname, self_container_name,
                   self_update_available, self_container_image, pc, todo, cur, report,
                   cycle, log, sent, procVars>>

NextDetect ==
    \/ \E r \in DOMAIN registry : RegistryPush(r)
    \/ DetectCheck

SpecDetect == InitDetect /\ [][NextDetect]_vars

\* ---------------------------------------------------- who the process is
\* HOSTNAME as the process finds it: not set, empty, the short id of
\* container w, a longer name that begins with that short id, a name of its
\* own, or the name of container x
EnvHostnames ==
    {[set |-> FALSE, value |-> <<>>]}
    \cup {[set |-> TRUE, value |-> v] :
            v \in {<<>>, <<"1">>, <<"1", "2">>, <<"h">>, X}}

\* socket.gethostname() of the process
HostNamesOfSocket == {<<"1">>, <<"h">>}

\* CONTAINER_NAME: not set, the name of w, a name no container has
ExplicitNames == {<<>>, W, <<"z">>}

\* Config.Hostname of the two containers: the short ids, a name given to x,
\* the same name given to both
ConfigHostnames ==
    {[n \in Names |-> IF n = W THEN <<"1">> ELSE <<"2">>],
     [n \in Names |-> IF n = W THEN <<"1">> ELSE <<"h">>],
     [n \in Names |-> <<"h">>]}

\* lines 262-281: construction with every answer the environment and the
\* runtime can give to the resolver; the registry already has a newer image
\* of the one both containers run.  chk keeps what construction read.
InitIdentity ==
    /\ containers = [n \in Names |->
                       Container(IF n = W THEN <<"1", "1">> ELSE <<"2", "1">>,
                                 ImgA, RefA1, FALSE)]
    /\ localTag = [r \in Refs |-> ImgA]
    /\ registry = [r \in Refs |-> IF r = RefA1 THEN <<RepoOf(r), FirstNewImage>> ELSE ImgA]
    /\ pushes = 0
    /\ created = 1
    /\ \E h \in EnvHostnames, sock \in HostNamesOfSocket, explicit \in ExplicitNames,
          m1 \in {"ok", "APIError"}, m3 \in BOOLEAN, order \in Orders(Names),
          cfg \in ConfigHostnames, failing \in SUBSET Names :
          LET inspect == [n \in Names |-> Inspected(n \notin failing, cfg[n])]
              listing == Listing(m3, order)
          IN  /\ h.set => sock = <<"h">>
              /\ ~m3 => (order = <<W, X>> /\ failing = {})
              /\ hostname = IF h.set THEN h.value ELSE sock
              /\ self_container_name =
                    SelfContainerName(containers, h.value, explicit, m1, listing, inspect)
              /\ chk = [HOSTNAME |-> h.value, CONTAINER_NAME |-> explicit, m1 |-> m1,
                        listing |-> listing, inspect |-> inspect, cs |-> containers]
    /\ self_update_available = FALSE
    /\ self_container_image = None
    /\ pc = "idle"
    /\ todo = <<>>
    /\ cur = None
    /\ report = EmptyReport
    /\ cycle = 0
    /\ log = <<>>
    /\ sent = <<>>
    /\ InitProcess(DefaultEnv)

\* the cycles of such a process when no runtime call fails
NextIdentity ==
    \/ StartCycleWith({})
    \/ VisitContainerWith({}, {NoFault})
    \/ RecreateStopWith({})
    \/ RecreateRemoveWith({})
    \/ RecreateCreateWith({})
    \/ CleanupWith({})
    \/ Finalize
    \/ SelfRestartWith({})
    \/ Return

SpecIdentity == InitIdentity /\ [][NextIdentity]_vars

\* ------------------------------------------------ the creation request
\* Config and HostConfig entries that recreate_container copies as they are,
\* with the key each gets in the request (lines 590-607, 630-660)
CopiedFields ==
    {<<"Env", "environment">>, <<"Cmd", "command">>, <<"Entrypoint", "entrypoint">>,
     <<"WorkingDir", "working_dir">>, <<"User", "user">>, <<"Labels", "labels">>,
     <<"PortBindings", "ports">>, <<"NetworkMode", "network_mode">>,
     <<"Privileged", "privileged">>, <<"CapAdd", "cap_add">>, <<"CapDrop", "cap_drop">>,
     <<"Memory", "mem_limit">>, <<"NanoCpus", "nano_cpus">>}

SourceFields == {f[1] : f \in CopiedFields} \cup {"Binds", "Mounts", "RestartPolicy"}

\* a value that is empty for Python (None, '', [], {}, 0, False), and one
\* that is not
Empty == <<>>
SomeValue == <<"v">>

\* HostConfig.Binds: bind strings with a source and a target ("a:b") and
\* with a target only ("d")
BindLists ==
    {Empty, << <<"a", ":", "b">> >>, << <<"d">> >>, << <<"a", ":", "b">>, <<"d">> >>}

\* HostConfig.Mounts with one entry: a bind mount, a volume mount with
\* options of its own, a tmpfs mount (it has no Source)
MountLists ==
    {Empty,
     << [Type |-> "bind", Source |-> "s", Target |-> "t", ReadOnly |-> TRUE] >>,
     << [Type |-> "volume", Source |-> "s", Target |-> "t", VolumeOptions |-> "nocopy"] >>,
     << [Type |-> "tmpfs", Target |-> "t", TmpfsOptions |-> "size"] >>}

\* HostConfig.RestartPolicy: Name and MaximumRetryCount
RestartPolicies == {Empty, <<"always", "0">>}

\* container.attrs of a container whose entries in given are not empty
Config(given, binds, mounts, policy) ==
    [f \in SourceFields |->
        IF f = "Binds" THEN binds
        ELSE IF f = "Mounts" THEN mounts
        ELSE IF f = "RestartPolicy" THEN policy
        ELSE IF f \in given THEN SomeValue ELSE Empty]

\* lines 626-631: Mount(target=, source=, type=, read_only=)
Mount(m) ==
    [Type |-> m.Type, Source |-> m.Source, Target |-> m.Target,
     ReadOnly |-> IF "ReadOnly" \in DOMAIN m THEN m.ReadOnly ELSE FALSE]

\* lines 613-621: the binds that bind.split(':') cuts into at least two
\* parts, or {} when there is none
Volumes(binds) ==
    SelectSeq(binds, LAMBDA b : 1 + Cardinality({i \in DOMAIN b : b[i] = ":"}) >= 2)

\* lines 582-660: the request recreate_container builds from
\* container.attrs, or the KeyError a mount without Source raises
container_config(name, image, c) ==
    IF \E i \in DOMAIN c["Mounts"] : "Source" \notin DOMAIN c["Mounts"][i]
    THEN [raised |-> TRUE, request |-> Empty]
    ELSE
    LET copied == {f \in CopiedFields : c[f[1]] # Empty}
        keys == {"image", "name", "detach"}
                 \cup {f[2] : f \in copied}
                 \cup (IF c["Binds"] # Empty THEN {"volumes"} ELSE {})
                 \cup (IF c["Mounts"] # Empty THEN {"mounts"} ELSE {})
                 \cup (IF c["RestartPolicy"] # Empty THEN {"restart_policy"} ELSE {})
    IN
    [raised |-> FALSE,
     request |->
        [k \in keys |->
            IF k = "image" THEN image
            ELSE IF k = "name" THEN name
            ELSE IF k = "detach" THEN <<"True">>
            ELSE IF k = "volumes" THEN Volumes(c["Binds"])
            ELSE IF k = "mounts" THEN [i \in DOMAIN c["Mounts"] |-> Mount(c["Mounts"][i])]
            ELSE IF k = "restart_policy"
                 THEN <<c["RestartPolicy"][1], c["RestartPolicy"][2]>>
            ELSE LET f == CHOOSE g \in copied : g[2] = k IN c[f[1]]]]

\* a host at rest, for the checks of single functions
IdleHost ==
    /\ containers = [n \in {X} |-> Container(<<"2", "1">>, ImgA, RefA1, FALSE)]
    /\ localTag = [r \in Refs |-> ImgA]
    /\ registry = [r \in Refs |-> ImgA]
    /\ pushes = 0
    /\ created = 1
    /\ hostname = <<"h">>
    /\ self_container_name = None
    /\ self_update_available = FALSE
    /\ self_container_image = None
    /\ pc = "idle"
    /\ todo = <<>>
    /\ cur = None
    /\ report = EmptyReport
    /\ cycle = 0
    /\ log = <<>>
    /\ sent = <<>>
    /\ InitProcess(DefaultEnv)

InitSnapshot ==
    /\ IdleHost
    /\ \E given \in SUBSET {f[1] : f \in CopiedFields}, binds \in BindLists,
          mounts \in MountLists, policy \in RestartPolicies :
          chk = [config |-> Config(given, binds, mounts, policy), built |-> FALSE,
                 raised |-> FALSE, request |-> Empty]

\* recreate_container up to the stop of the old container
BuildRequest ==
    /\ ~chk.built
    /\ LET o == container_config(X, containers[X].cfgImage, chk.config)
       IN  chk' = [chk EXCEPT !.built = TRUE, !.raised = o.raised, !.request = o.request]
    /\ UNCHANGED <<containers, localTag, registry, pushes, created, hostname,
                   self_container_name, self_update_available, self_container_image,
                   pc, todo, cur, report, cycle, log, sent, procVars>>

SpecSnapshot == InitSnapshot /\ [][BuildRequest]_vars

\* ---------------------------------------------- the classifier on its own
\* References the classifier is asked about: official, untagged, namespaced,
\* with a registry host, with a registry host and port, a content hash, and
\* a name no digest carries
ClassifyNames ==
    {RefA1, <<"a">>, RefU1, <<"r", ".", "o", "/", "a", ":", "1">>,
     <<"h", ":", "5", "/", "a", ":", "1">>, ImageId(ImgA), RefL1}

\* Repositories a digest of the image can name
DigestRepos ==
    {<<"a">>, <<"u", "/", "a">>, <<"r", ".", "o", "/", "a">>,
     <<"h", ":", "5", "/", "a">>, <<"h">>}

RECURSIVE DigestLists(_)
\* the RepoDigests attributes of up to n entries
DigestLists(n) ==
    IF n = 0 THEN {<<>>}
    ELSE LET shorter == DigestLists(n - 1)
         IN  shorter \cup {Append(l, r \o <<"@">> \o ImageId(ImgA)) : l \in {x \in shorter : Len(x) = n - 1},
                                                     r \in DigestRepos}

InitClassify ==
    /\ containers = [n \in {X} |-> Container(<<"2", "1">>, ImgA, RefA1, FALSE)]
    /\ localTag = [r \in Refs |-> ImgA]
    /\ registry = [r \in Refs |-> ImgA]
    /\ pushes = 0
    /\ created = 1
    /\ hostname = <<"h">>
    /\ self_container_name = None
    /\ self_update_available = FALSE
    /\ self_container_image = None
    /\ pc = "idle"
    /\ todo = <<>>
    /\ cur = None
    /\ report = EmptyReport
    /\ cycle = 0
    /\ log = <<>>
    /\ sent = <<>>
    /\ \E name \in ClassifyNames, found \in BOOLEAN, digests \in DigestLists(MaxDigests) :
          /\ ~found => digests = <<>>
          /\ chk = [image_name |-> name, found |-> found, repo_digests |-> digests,
                    done |-> FALSE, result |-> FALSE]
    /\ InitProcess(DefaultEnv)

\* One call of is_local_only_image
Classify ==
    /\ ~chk.done
    /\ chk' = [chk EXCEPT !.done = TRUE,
                          !.result = IsLocalOnly(chk.image_name, chk.found, chk.repo_digests)]
    /\ UNCHANGED <<containers, localTag, registry, pushes, created, hostname,
                   self_container_name, self_update_available, self_container_image,
                   pc, todo, cur, report, cycle, log, sent, procVars>>

SpecClassify == InitClassify /\ [][Classify]_vars

\* ------------------------------------------------------------ run(), main()
cycleVars ==
    <<containers, localTag, registry, pushes, created, hostname, self_container_name,
      self_update_available, self_container_image, pc, todo, cur, report, cycle, log,
      sent, chk>>

Min(a, b) == IF a < b THEN a ELSE b

\* line 1020: the longest single sleep of the wait loop
Slice == Minute

\* line 1031: the pause after an exception in the loop
Backoff == Minute

\* cron.get_next(datetime): the first instant of the schedule after the one
\* the iterator stands at
get_next(period, at) == ((at \div period) + 1) * period

\* A wait loop that sleeps until the scheduled instant in one piece
SleepTimeWhole(wait) == wait

\* line 1020: sleep_time = min(wait_seconds, 60)
SleepTime(wait) == Min(wait, Slice)

\* A handler that ends the process where it stands
AfterSignalExit(at) == "stopped"

\* _signal_handler returns to the statement it interrupted
AfterSignal(at) == at

\* Where an exception that leaves run_update_cycle is caught: the call of
\* line 1006 is outside the try of the loop, so the exception leaves run()
\* and main() exits with status 1; the call of line 1025 is inside it
Escaped(at) == IF at = "startup_call" THEN "fatal" ELSE "backoff"

Returned(at) == IF at = "startup_call" THEN "while" ELSE "recron"

CallStates == {"startup_call", "call"}

\* croniter(expr, at): the exceptions an expression it rejects can raise
ParseErrors == {"ValueError", "KeyError"}

\* croniter(expr, at) for an expression it accepts
croniter(schedule, at) == [period |-> schedule.period, at |-> at]

\* A start-up that handles ValueError only
ScheduleExceptValueError(exc) == IF exc = "ValueError" THEN "fallback" ELSE "bad_schedule"

\* line 995: except (KeyError, ValueError)
ScheduleExcept(exc) == "fallback"

\* lines 981-1006: the schedule is read and the iterator is created, with
\* the default schedule when the expression is rejected; then the cycle on
\* start-up runs
RunStart ==
    /\ pcRun = "init"
    /\ LET expr == Schedule(env.schedule_ok, env.period)
           go == IF env.run_on_startup THEN "startup_call" ELSE "while"
       IN
       IF expr.ok
       THEN /\ cron_schedule' = expr
            /\ cron' = croniter(expr, now)
            /\ pcRun' = go
            /\ UNCHANGED hist
       ELSE \E exc \in ParseErrors :
            IF ScheduleExcept(exc) = "fallback"
            THEN /\ cron_schedule' = DefaultSchedule
                 /\ cron' = croniter(DefaultSchedule, now)
                 /\ hist' = [hist EXCEPT !.fallback = TRUE]
                 /\ pcRun' = go
            ELSE /\ cron_schedule' = expr
                 /\ pcRun' = "bad_schedule"
                 /\ UNCHANGED <<cron, hist>>
    /\ UNCHANGED <<env, running, now, next_run, wait_seconds, hook, cycleVars>>

\* line 1009: while self.running
WhileRunning ==
    /\ pcRun = "while"
    /\ pcRun' = IF running THEN "compute" ELSE "stopped"
    /\ UNCHANGED <<env, cron_schedule, running, now, cron, next_run, wait_seconds, hist, hook, cycleVars>>

\* lines 1012-1015
ComputeNextRun ==
    /\ pcRun = "compute"
    /\ next_run' = get_next(cron.period, cron.at)
    /\ cron' = [cron EXCEPT !.at = next_run']
    /\ wait_seconds' = next_run' - now
    /\ pcRun' = IF wait_seconds' > 0 THEN "wait" ELSE "check"
    /\ UNCHANGED <<env, cron_schedule, running, now, hist, hook, cycleVars>>

\* line 1019: while wait_seconds > 0 and self.running
WaitTest ==
    /\ pcRun = "wait"
    /\ pcRun' = IF wait_seconds > 0 /\ running THEN "sleep" ELSE "check"
    /\ UNCHANGED <<env, cron_schedule, running, now, cron, next_run, wait_seconds, hist, hook, cycleVars>>

\* lines 1020-1022: one sleep of the wait loop
Sleep ==
    /\ pcRun = "sleep"
    /\ now < MaxTime
    /\ LET sleep_time == SleepTime(wait_seconds)
       IN  /\ now' = now + sleep_time
           /\ wait_seconds' = wait_seconds - sleep_time
           /\ hist' = [hist EXCEPT !.slept = sleep_time]
    /\ pcRun' = "wait"
    /\ UNCHANGED <<env, cron_schedule, running, cron, next_run, hook, cycleVars>>

\* line 1024: if self.running
CheckRunning ==
    /\ pcRun = "check"
    /\ pcRun' = IF running THEN "call" ELSE "while"
    /\ UNCHANGED <<env, cron_schedule, running, now, cron, next_run, wait_seconds, hist, hook, cycleVars>>

\* the bookkeeping of a call of run_update_cycle that took d ticks
Called(d) ==
    [hist EXCEPT !.calls = @ + 1,
                 !.start = [scheduled |-> IF pcRun = "startup_call" THEN -1 ELSE next_run,
                            prev |-> hist.lastReturn, at |-> now],
                 !.lastReturn = now + d]

\* lines 1006 and 1025 as run() sees them: run_update_cycle takes some time
\* and returns or raises (an exception of the self-restart step other than
\* NotFound and APIError leaves it, lines 929-932)
RunUpdateCycle ==
    /\ pcRun \in CallStates
    /\ now < MaxTime
    /\ \E d \in 0..MaxDur, raised \in BOOLEAN :
       /\ now' = now + d
       /\ hist' = Called(d)
       /\ pcRun' = IF raised THEN Escaped(pcRun) ELSE Returned(pcRun)
    /\ UNCHANGED <<env, cron_schedule, running, cron, next_run, wait_seconds, hook, cycleVars>>

\* line 1027: cron = croniter(cron_schedule, datetime.now())
Recron ==
    /\ pcRun = "recron"
    /\ cron' = croniter(cron_schedule, now)
    /\ pcRun' = "while"
    /\ UNCHANGED <<env, cron_schedule, running, now, next_run, wait_seconds, hist, hook, cycleVars>>

\* lines 1029-1031: except Exception, time.sleep(60)
BackOff ==
    /\ pcRun = "backoff"
    /\ now < MaxTime
    /\ now' = now + Backoff
    /\ hist' = [hist EXCEPT !.slept = Backoff]
    /\ pcRun' = "while"
    /\ UNCHANGED <<env, cron_schedule, running, cron, next_run, wait_seconds, hook, cycleVars>>

\* _signal_handler, lines 330-333: SIGTERM or SIGINT arrives while run() is
\* at pcRun (and, inside a call, the cycle at pc)
Signal ==
    /\ running
    /\ pcRun \notin {"init", "stopped", "fatal"}
    /\ pc # "exited"
    /\ running' = FALSE
    /\ pcRun' = AfterSignal(pcRun)
    /\ hist' = [hist EXCEPT !.signalAt = now, !.signalPc = pcRun, !.signalCycle = pc,
                            !.signalCount = cycle]
    /\ UNCHANGED <<env, cron_schedule, now, cron, next_run, wait_seconds, hook, cycleVars>>

\* a process with either schedule or an expression croniter rejects, with
\* and without the cycle on start-up
InitSched ==
    /\ InitHost
    /\ hostname = <<"h">>
    /\ \A n \in Names : containers[n] = Container(containers[n].id, ImgA, RefA1, FALSE)
    /\ localTag = [r \in Refs |-> ImgA]
    /\ \E period \in Periods, ok, run_on_startup \in BOOLEAN :
          InitProcess([DefaultEnv EXCEPT !.period = period,
                                         !.schedule_ok = ok,
                                         !.run_on_startup = run_on_startup])

NextSched ==
    \/ RunStart
    \/ WhileRunning
    \/ ComputeNextRun
    \/ WaitTest
    \/ Sleep
    \/ CheckRunning
    \/ RunUpdateCycle
    \/ Recron
    \/ BackOff
    \/ Signal

SpecSched == InitSched /\ [][NextSched]_vars

\* ------------------------------------------- run() with the cycles it calls
\* lines 1006 and 1025: run() calls run_update_cycle
CallCycle ==
    /\ pcRun \in CallStates
    /\ cycle = hist.calls
    /\ StartCycleWith({})

\* run_update_cycle has returned to run()
CycleReturned ==
    /\ pcRun \in CallStates
    /\ pc = "idle"
    /\ cycle = hist.calls + 1
    /\ hist' = Called(0)
    /\ pcRun' = Returned(pcRun)
    /\ UNCHANGED <<env, cron_schedule, running, now, cron, next_run, wait_seconds, hook, cycleVars>>

InitShutdown ==
    /\ InitHost
    /\ \E run_on_startup \in BOOLEAN :
          InitProcess([DefaultEnv EXCEPT !.run_on_startup = run_on_startup])

\* the process when no runtime call fails, with a signal at any point
NextShutdown ==
    \/ \E r \in Refs : pc = "idle" /\ RegistryPush(r)
    \/ RunStart
    \/ WhileRunning
    \/ ComputeNextRun
    \/ WaitTest
    \/ Sleep
    \/ CheckRunning
    \/ CallCycle
    \/ VisitContainerWith({}, {NoFault})
    \/ RecreateStopWith({})
    \/ RecreateRemoveWith({})
    \/ RecreateCreateWith({})
    \/ CleanupWith({})
    \/ Finalize
    \/ SelfRestartWith({})
    \/ Return
    \/ CycleReturned
    \/ Recron
    \/ Signal

SpecShutdown == InitShutdown /\ [][NextShutdown]_vars

\* --------------------------------------------------------------- send_webhook
\* A trigger test that forgets the cycle-level errors
has_errors_failed_only(rep) == rep.containers_failed > 0

\* line 354
has_updates(rep) == rep.containers_updated > 0

\* line 355
has_errors(rep) == rep.containers_failed > 0 \/ Len(rep.errors) > 0

\* DockerImageWatch.send_webhook, lines 350-360: "no_url" and "filtered" are
\* the two early returns, "attempt" is the request of lines 362-411
send_webhook(e, rep) ==
    IF e.webhook_url = <<>> THEN "no_url"
    ELSE IF ~e.webhook_always
            /\ ~(e.webhook_on_update /\ has_updates(rep))
            /\ ~(e.webhook_on_error /\ has_errors(rep))
         THEN "filtered"
    ELSE "attempt"

HookCounts == {0, 1, 2}

\* the reports send_webhook is tried on
HookReports ==
    {[EmptyReport EXCEPT !.containers_updated = u, !.containers_failed = f, !.errors = errs] :
        u \in HookCounts, f \in HookCounts,
        errs \in {<<>>, <<ErrorMessage("APIError")>>}}

InitWebhook ==
    /\ InitHost
    /\ hostname = <<"h">>
    /\ \A n \in Names : containers[n] = Container(containers[n].id, ImgA, RefA1, FALSE)
    /\ localTag = [r \in Refs |-> ImgA]
    /\ \E url \in {<<>>, <<"u">>}, on_update, on_error, always \in BOOLEAN :
          InitProcess(Environment(Minute, FALSE, url, on_update, on_error, always))

\* one call of send_webhook with what it was given and what it did
SendWebhook ==
    /\ \E rep \in HookReports : hook' = [report |-> rep, result |-> send_webhook(env, rep)]
    /\ UNCHANGED <<env, cron_schedule, running, pcRun, now, cron, next_run, wait_seconds, hist, cycleVars>>

NextWebhook == SendWebhook

SpecWebhook == InitWebhook /\ [][NextWebhook]_vars

\* ------------------------------------------------------- webhook delivery
\* How a delivery can go: building the payload raises (lines 362-398), or
\* the exchange of lines 400-416 gives a status below 300, a status from 300
\* up handed back by urlopen, or an exception
Deliveries == {"payload", "200", "300", "HTTPError", "URLError", "timeout", "Other"}

\* A sender that handles the two urllib errors only
HookExceptUrllibOnly(exc) == IF exc \in {"HTTPError", "URLError"} THEN "false" ELSE "raised"

\* lines 418-426: HTTPError, URLError and Exception are caught, each returns
\* False
HookExcept(exc) == "false"

\* DockerImageWatch.send_webhook, lines 348-428, as one call: whether a
\* delivery was decided, the requests made, what the call gave back and the
\* report as the call left it (nothing in the function assigns to it)
Deliver(e, rep, d) ==
    LET decided == send_webhook(e, rep)
    IN
    IF decided # "attempt"
    THEN [result |-> decided, attempts |-> 0, ret |-> "false", after |-> rep,
          delivery |-> "none"]
    ELSE [result |-> decided,
          attempts |-> IF d = "payload" THEN 0 ELSE 1,
          ret |-> IF d = "200" THEN "true"
                  ELSE IF d = "300" THEN "false"
                  ELSE HookExcept(d),
          after |-> rep,
          delivery |-> d]

\* lines 894-902 with the delivery spelled out: the call of line 898 is
\* outside the try of the cycle, so an exception leaving it would leave
\* run_update_cycle
FinalizeDeliver ==
    /\ pc = "finalize"
    /\ \E d \in Deliveries :
       LET stamped == [report EXCEPT !.duration = "stamped"]
           call == Deliver(env, stamped, d)
       IN  /\ report' = call.after
           /\ sent' = Append(sent, stamped)
           /\ log' = Append(log, Event("webhook", None, None, "sent", FALSE))
           /\ hook' = [report |-> stamped, result |-> call.result,
                       attempts |-> call.attempts, ret |-> call.ret,
                       after |-> call.after, delivery |-> call.delivery,
                       cycle |-> cycle]
           /\ pc' = IF call.ret = "raised" THEN "escaped"
                    ELSE IF self_update_available THEN "self_restart" ELSE "return"
    /\ UNCHANGED <<containers, localTag, registry, pushes, created, hostname,
                   self_container_name, self_update_available, self_container_image,
                   todo, cur, cycle, chk, env, running, pcRun, now, cron_schedule, cron,
                   next_run, wait_seconds, hist>>

\* the process runs in container w, both containers run the image tagged
\* a:1; any URL setting, with and without WEBHOOK_ALWAYS
InitDeliver ==
    /\ InitHost
    /\ hostname = <<"1">>
    /\ \A n \in Names : containers[n] = Container(containers[n].id, ImgA, RefA1, FALSE)
    /\ localTag = [r \in Refs |-> ImgA]
    /\ \E url \in {<<>>, <<"u">>}, always \in BOOLEAN :
          InitProcess(Environment(Minute, FALSE, url, TRUE, TRUE, always))

\* failure-free cycles whose webhook delivery can fail in every way
NextDeliver ==
    \/ \E r \in Refs : pc = "idle" /\ RegistryPush(r)
    \/ StartCycleWith({})
    \/ VisitContainerWith({}, {NoFault})
    \/ RecreateStopWith({})
    \/ RecreateRemoveWith({})
    \/ RecreateCreateWith({})
    \/ CleanupWith({})
    \/ FinalizeDeliver
    \/ SelfRestartWith({})
    \/ Return

SpecDeliver == InitDeliver /\ [][NextDeliver]_vars

\* ================================================================ properties
RecreatorOps == {"stop", "remove", "create", "recreate"}

\* names of the containers this cycle classified as the self container
SelfNames == {log[i].name : i \in {j \in DOMAIN log : log[j].op \in {"visit", "check"} /\ log[j].self}}

HasPending(rep) ==
    \E k \in DOMAIN rep.container_reports : rep.container_reports[k].status = "pending-restart"

WithStatus(rep, status) ==
    {k \in DOMAIN rep.container_reports : rep.container_reports[k].status = status}

SelfCheckedWithUpdate ==
    \E i \in DOMAIN log :
        log[i].op = "check" /\ log[i].self /\ log[i].res = "update_available"

InRecreate(n) ==
    pc \in {"recreate_stop", "recreate_remove", "recreate_create"} /\ cur[1] = n

\* ---- C1
\* C1: a container the cycle classified as the self container is never
\* handed to the Recreator: no stop, remove, create or recreate step of the
\* Recreator carries its name, also when its check said update_available.
C1_SelfNeverRecreated ==
    /\ \A i \in DOMAIN log : log[i].op \in RecreatorOps => log[i].name \notin SelfNames
    /\ \A n \in SelfNames : ~InRecreate(n)

\* a finished cycle in which the self container's check said update_available
C1_Witness == pc = "return" /\ SelfCheckedWithUpdate

\* ---- C2
\* C2: the stop of the self container happens only after every container of
\* the listing was processed, the image cleanup has run, and the report was
\* handed to the webhook sender.
C2_RestartIsLast ==
    \A i \in DOMAIN log :
        log[i].op = "self_stop" =>
            /\ todo = <<>>
            /\ \E k, j \in 1..(i - 1) :
                  /\ k < j
                  /\ log[k].op = "cleanup" /\ log[k].res = "done"
                  /\ log[j].op = "webhook"

\* ---- C3
\* C3: a cycle that recorded a pending-restart entry has invoked the stop of
\* the self container by the time it returns, however the self container was
\* recognised (resolved name, or hostname matched against the id).
C3_PendingRestartStops ==
    (pc = "return" /\ HasPending(report)) => \E i \in DOMAIN log : log[i].op = "self_stop"

\* ---- C4
\* C4: when the self container's check said update_available, the report
\* handed to the webhook sender has a pending-restart entry and its
\* containers_updated is the number of updated entries plus one, also when a
\* later step of the cycle raised.
C4_SelfUpdateCounted ==
    (sent # <<>> /\ SelfCheckedWithUpdate) =>
        /\ HasPending(sent[1])
        /\ sent[1].containers_updated = Cardinality(WithStatus(sent[1], "updated")) + 1

\* ---- C5
\* C5: when a cycle in which no runtime call failed returns, no running
\* container that is neither the self container nor disabled, and that was
\* checked under its own registry reference, still runs another image than
\* the one the registry has under that reference.
C5_AllOutdatedRecreated ==
    pc = "return" =>
        \A i \in DOMAIN log :
            (/\ log[i].op = "check" /\ ~log[i].self
             /\ log[i].name \in DOMAIN containers
             /\ containers[log[i].name].running
             /\ log[i].ref = containers[log[i].name].cfgImage
             /\ log[i].ref \in DOMAIN registry)
            => containers[log[i].name].img = registry[log[i].ref]

\* ---- C6
\* C6: the detector is never invoked for a container that carries the label
\* docker-image-watch.disable = "true".
C6_DisabledNeverChecked ==
    \A i \in DOMAIN log :
        (log[i].op = "check" /\ log[i].name \in DOMAIN containers)
            => ~containers[log[i].name].disabled

\* ---- C7
\* the report category for a detector outcome and the Recreator's results
Category(res, recreations) ==
    IF res = "update_available"
    THEN (IF \E i \in recreations : log[i].res = "true" THEN "updated" ELSE "error")
    ELSE IF res = "up_to_date" THEN "up-to-date"
    ELSE res

\* C7: for every container that is neither the self container nor disabled,
\* the Recreator is invoked exactly once when the detector returned
\* update_available and not at all otherwise; the container has one report
\* entry, updated or error as the Recreator returned true or false, and
\* skipped, up-to-date or error as the detector returned; the counters
\* containers_updated, containers_failed and containers_skipped count these
\* entries.
C7_RecreatorIffUpdate ==
    /\ \A i \in DOMAIN log :
          (log[i].op = "check" /\ ~log[i].self /\ log[i].res # "raised") =>
             LET n == log[i].name
                 recreations == {j \in DOMAIN log : log[j].op = "recreate" /\ log[j].name = n}
                 entries == {k \in DOMAIN report.container_reports :
                                report.container_reports[k].name = n}
             IN
             IF InRecreate(n) THEN recreations = {} /\ entries = {}
             ELSE /\ Cardinality(recreations) = (IF log[i].res = "update_available" THEN 1 ELSE 0)
                  /\ \A j \in recreations : j > i
                  /\ Cardinality(entries) = 1
                  /\ \A k \in entries :
                        report.container_reports[k].status = Category(log[i].res, recreations)
    /\ report.containers_updated =
          Cardinality(WithStatus(report, "updated"))
          + (IF HasPending(report)
                /\ \E i \in DOMAIN log : log[i].op = "cleanup" /\ log[i].res = "done"
             THEN 1 ELSE 0)
    /\ report.containers_failed = Cardinality(WithStatus(report, "error"))
    /\ report.containers_skipped = Cardinality(WithStatus(report, "skipped"))

\* a finished cycle with a successful recreation and its updated entry
C7_Witness ==
    /\ pc = "return"
    /\ \E i \in DOMAIN log : log[i].op = "recreate" /\ log[i].res = "true"
    /\ WithStatus(report, "updated") # {}

\* ---- C8
\* pull failures whose cause is that the registry does not have the image
NotFoundCauses ==
    {"repository does not exist", "pull access denied", "manifest not found", "Not Found"}

\* the check got as far as the pull and no digest read raised
ReachedPull ==
    /\ chk # NoChk
    /\ chk.F.name = "ok" /\ chk.F.cls # "Other" /\ chk.F.d1 # "Other" /\ chk.F.d2 # "Other"
    /\ chk.stage \in {"pull", "compare"}

\* C8: for a tagged registry-backed image (the check gets to the pull and no
\* digest read raises), the result is a function of the pull result and the
\* two digests: skipped when the pull failed because
\* the registry does not have the image, error when it failed for another
\* cause, update_available when it succeeded and both digests exist and
\* differ, up_to_date otherwise.
C8_ResultTable ==
    ReachedPull =>
        chk.result =
            IF chk.F.pull # "ok"
            THEN (IF chk.F.pull \in NotFoundCauses THEN "skipped" ELSE "error")
            ELSE IF chk.old # None /\ chk.new # None /\ chk.old # chk.new
            THEN "update_available"
            ELSE "up_to_date"

\* a successful pull after which only the new digest exists
C8_Witness ==
    ReachedPull /\ chk.F.pull = "ok" /\ chk.old = None /\ chk.new # None

\* ---- C9
\* C9: check_for_update_with_status returns for every failure: an exception
\* raised at any of its steps does not leave it, and its result is error.
C9_NeverPropagates ==
    chk # NoChk => /\ ~chk.propagated
                   /\ chk.raised # "none" => chk.result = "error"

\* an exception that is not an APIError, raised by the second digest read
C9_Witness == chk # NoChk /\ chk.raised = "Other" /\ chk.stage = "digest2"

\* ---- C10
\* C10: right after a recreation that returned true, following a check of
\* reference R that said update_available, a container of the same name
\* exists, has another id, and was created from the image R resolves to
\* after the pull, whatever Config.Image of the old container was.
C10_RecreatedFromPulled ==
    (log # <<>> /\ log[Len(log)].op = "recreate" /\ log[Len(log)].res = "true") =>
        LET e == log[Len(log)]
            c == CHOOSE i \in DOMAIN log : log[i].op = "check" /\ log[i].name = e.name
        IN
        /\ e.name \in DOMAIN containers
        /\ containers[e.name].id # e.id
        /\ containers[e.name].img = localTag[log[c].ref]

\* ---- C11
RecreateSteps == <<"stop", "remove", "create">>

RecreateReturned == log # <<>> /\ log[Len(log)].op = "recreate"

\* the runtime calls recreate_container made for the container of event e
StepsOf(e) ==
    LET IsStep(ev) == ev.name = e.name /\ ev.op \in {"stop", "remove", "create"}
    IN  SelectSeq(log, IsStep)

\* stop, remove, create in that order, nothing after a failure, false
\* without raising, reported as error, old container kept after a failed
\* stop or remove
StepsInOrder(e) ==
    LET steps == StepsOf(e)
        last == steps[Len(steps)]
        entries == report.container_reports
    IN
    /\ Len(steps) \in 1..3
    /\ \A k \in 1..Len(steps) : steps[k].op = RecreateSteps[k]
    /\ \A k \in 1..(Len(steps) - 1) : steps[k].res = "ok"
    /\ (e.res = "true") <=> (Len(steps) = 3 /\ last.res = "ok")
    /\ pc = "loop"
    /\ e.res = "false" =>
          /\ last.res = "fail"
          /\ entries # <<>>
          /\ entries[Len(entries)].name = e.name
          /\ entries[Len(entries)].status = "error"
          /\ last.op \in {"stop", "remove"} =>
                /\ e.name \in DOMAIN containers
                /\ containers[e.name].id = e.id
          /\ last.op = "remove" => ~containers[e.name].running

FailedAtCreate(e) == e.res = "false" /\ StepsOf(e)[Len(StepsOf(e))].op = "create"

C12_FailureContained ==
    pc = "return" =>
        \A i \in DOMAIN log :
            (log[i].op = "visit" /\ log[i].res = "APIError") =>
                /\ todo = <<>>
                /\ \E k \in WithStatus(report, "error") :
                      report.container_reports[k].name = log[i].name

\* ---- C13
ListingRaised == log # <<>> /\ log[1].op = "list" /\ log[1].res \in Exceptions

\* C13: when the listing raised, no container is processed, the failure is
\* the one cycle-level error of the report, and the report is handed to the
\* webhook sender once, with its duration stamped, before the cycle returns.
C13_ListingFailureReported ==
    ListingRaised =>
        /\ \A i \in 2..Len(log) : log[i].op \in {"webhook", "self_restart", "self_stop"}
        /\ report.container_reports = <<>>
        /\ report.containers_checked = 0
        /\ report.errors = <<ErrorMessage(log[1].res)>>
        /\ pc \in {"finalize", "self_restart", "return", "exited"}
        /\ pc = "finalize" => sent = <<>>
        /\ pc # "finalize" =>
              /\ Len(sent) = 1
              /\ sent[1].duration = "stamped"
              /\ sent[1].errors = report.errors

\* a cycle whose listing raised has delivered its report and returns
C13_Witness == ListingRaised /\ pc = "return" /\ Len(sent) = 1

\* ---- C14
\* C14: once the loop of a cycle has ended without an exception, the report
\* has one entry for each container the cycle visited, in the order of the
\* visits, whatever the detector returned, the self container included.
C14_OneReportEach ==
    (\E i \in DOMAIN log : log[i].op = "cleanup" /\ log[i].res = "done") =>
        LET Visited(ev) == ev.op \in {"check", "disabled"}
            visits == SelectSeq(log, Visited)
        IN  [k \in DOMAIN report.container_reports |-> report.container_reports[k].name]
              = [k \in DOMAIN visits |-> visits[k].name]

\* ---- C15
\* C15: in a cycle whose listing succeeded, the empty listing included, the
\* images are pruned before the report is handed to the webhook sender.
C15_PruneBeforeWebhook ==
    (pc = "return" /\ log # <<>> /\ log[1].op = "list" /\ log[1].res \in {"ok", "empty"}) =>
        \E k, j \in DOMAIN log :
            /\ k < j
            /\ log[k].op = "cleanup" /\ log[k].res = "done"
            /\ log[j].op = "webhook"

\* ---- C16
\* C16: the instant a cycle is scheduled for is strictly later than the
\* return of the cycle before it, also when that cycle was the one run on
\* start-up or one that raised.
C16_ScheduledAfterReturn ==
    (hist.start # <<>> /\ hist.start.prev >= 0) => hist.start.scheduled > hist.start.prev

\* ---- C17
\* C17: an exception that leaves a cycle, the cycle on start-up included,
\* never ends the process.
C17_CycleNeverFatal == pcRun # "fatal"

\* ---- C18
SignalledInWait == hist.signalPc \in {"wait", "sleep"}

\* C18: no sleep is longer than one slice, and once the flag is set during
\* a wait no cycle is started any more and the loop is never more than one
\* slice past the signal on its way to the stopped state.
C18_PromptShutdown ==
    /\ hist.slept <= Slice
    /\ SignalledInWait =>
          /\ pcRun \in {"wait", "sleep", "check", "while", "stopped"}
          /\ now - hist.signalAt <= Slice

\* the loop has stopped a full slice after a signal that came during a sleep
C18_Witness ==
    pcRun = "stopped" /\ hist.signalPc = "sleep" /\ now - hist.signalAt = Slice

\* ---- C19
SignalledInCycle == hist.signalCycle \notin {"none", "idle"}

RecreateStates == {"recreate_stop", "recreate_remove", "recreate_create"}

\* C19: a signal that arrives while a cycle runs interrupts nothing: when
\* the loop has stopped no cycle is in progress; the cycle the signal
\* arrived in still creates the container it was recreating, visits every
\* remaining container, prunes and hands its report to the webhook sender;
\* and no cycle is started after it.
C19_SignalOnlySetsFlag ==
    /\ pcRun = "stopped" => pc = "idle"
    /\ SignalledInCycle => cycle = hist.signalCount
    /\ (SignalledInCycle /\ pc = "return") =>
          /\ todo = <<>>
          /\ \E i \in DOMAIN log : log[i].op = "webhook"
          /\ hist.signalCycle \in RecreateStates \cup {"loop"} =>
                \E i \in DOMAIN log : log[i].op = "cleanup"
          /\ hist.signalCycle \in RecreateStates =>
                \E i \in DOMAIN log : log[i].op = "create"

\* the loop has stopped after a signal that came between remove and create
C19_Witness ==
    pcRun = "stopped" /\ hist.signalCycle = "recreate_remove" /\ cycle = hist.signalCount

\* ---- C20
\* C20: send_webhook attempts a delivery exactly when the URL is not empty
\* and send-always is set, or send-on-update is set and containers_updated
\* is positive, or send-on-error is set and the report has a failed
\* container or a cycle-level error.
C20_WebhookTrigger ==
    hook # NoHook =>
        ((hook.result = "attempt") <=>
            /\ env.webhook_url # <<>>
            /\ \/ env.webhook_always
               \/ env.webhook_on_update /\ hook.report.containers_updated > 0
               \/ /\ env.webhook_on_error
                  /\ \/ hook.report.containers_failed > 0
                     \/ hook.report.errors # <<>>)

\* a delivery attempted only because of a cycle-level error
C20_Witness ==
    /\ hook # NoHook
    /\ hook.result = "attempt"
    /\ ~env.webhook_always
    /\ hook.report.containers_updated = 0
    /\ hook.report.containers_failed = 0
    /\ hook.report.errors # <<>>

\* ---- C21
DeliveryFailures == Deliveries \ {"payload", "200"}

DeliveredThisCycle ==
    /\ hook # NoHook
    /\ hook.cycle = cycle
    /\ pc \in {"self_restart", "return", "exited", "escaped"}

\* C21: whatever the delivery does, send_webhook returns without raising,
\* makes at most one request in the cycle, leaves the report as it was, and
\* the pending self-restart is carried out after it.
C21_DeliveryFailureContained ==
    DeliveredThisCycle =>
        /\ hook.ret # "raised"
        /\ pc # "escaped"
        /\ hook.attempts <= 1
        /\ Len(SelectSeq(log, LAMBDA e : e.op = "webhook")) = 1
        /\ hook.after = hook.report
        /\ report = hook.report
        /\ self_update_available =>
              \/ pc = "self_restart"
              \/ \E i \in DOMAIN log : log[i].op \in {"self_restart", "self_stop"}

\* a failed delivery followed by the stop of the self container
C21_Witness ==
    /\ DeliveredThisCycle
    /\ hook.attempts = 1
    /\ hook.delivery \in DeliveryFailures
    /\ hook.ret = "false"
    /\ \E i \in DOMAIN log : log[i].op = "self_stop"

\* ---- C22
\* the reference without its tag (a colon before the last slash belongs to
\* the registry host), and what can be called the base name of the image:
\* the reference without its tag, or the last segment of that
NameWithoutTag(ref) ==
    IF LastIndex(ref, ":") > LastIndex(ref, "/")
    THEN SubSeq(ref, 1, LastIndex(ref, ":") - 1)
    ELSE ref

BaseNames(ref) == {NameWithoutTag(ref), SplitLast(NameWithoutTag(ref), "/")}

IsContentHash(ref) == StartsWith(ref, ShaScheme)

HostSignal(digest) ==
    LET repo == SplitHead(digest, "@")
    IN  /\ Contains(repo, "/")
        /\ Contains(SplitHead(repo, "/"), ".") \/ Contains(SplitHead(repo, "/"), ":")

NameSignal(digest, base) ==
    LET repo == SplitHead(digest, "@")
    IN  ~Contains(repo, "/") /\ repo = base

AnyDigest(P(_)) == \E i \in DOMAIN chk.repo_digests : P(chk.repo_digests[i])

\* the ladder of the classifier when base is the base name of the image
Ladder(base) ==
    LET host == AnyDigest(HostSignal)
        name == AnyDigest(LAMBDA d : NameSignal(d, base))
    IN
    /\ IsContentHash(chk.image_name) => chk.result
    /\ (~IsContentHash(chk.image_name) /\ chk.found) =>
          /\ chk.repo_digests = <<>> => chk.result
          /\ host => ~chk.result
          /\ name => ~chk.result
          /\ (chk.repo_digests # <<>> /\ ~host /\ ~name) => chk.result

\* C22: the classifier answers by the ladder: content hash, local-only; no
\* digests, local-only; a digest naming a registry host, not local-only; a
\* one-segment digest repository equal to the base name of the image, not
\* local-only; digests without any of these signals, local-only.  An answer
\* is accepted when it fits the ladder for either sense of base name.
C22_ClassificationLadder ==
    chk.done => \E base \in BaseNames(chk.image_name) : Ladder(base)

\* ---- C23
\* C23: the classifier says local-only exactly for content-hash references
\* and for images present locally without any repository digest.
C23_LocalOnlyOnlyWithoutDigests ==
    chk.done =>
        (chk.result <=>
            \/ IsContentHash(chk.image_name)
            \/ chk.found /\ chk.repo_digests = <<>>)

\* ---- C24
BadExpression == ~env.schedule_ok /\ pcRun # "init"

\* C24: with a schedule expression that croniter rejects, start-up does not
\* raise; the default schedule takes its place, the fallback is logged, the
\* loop is entered, and every iterator made later is made from the default.
C24_InvalidScheduleFallsBack ==
    BadExpression =>
        /\ pcRun # "bad_schedule"
        /\ hist.fallback
        /\ cron_schedule = DefaultSchedule
        /\ cron.period = DefaultPeriod
        /\ pcRun \in {"wait", "sleep", "check", "call"} =>
              next_run = get_next(DefaultPeriod, next_run - 1)

\* the iterator has been made anew after a scheduled cycle of a process
\* whose expression was rejected
C24_Witness ==
    /\ BadExpression
    /\ env.period # DefaultPeriod
    /\ pcRun = "while"
    /\ hist.start # <<>>
    /\ hist.start.scheduled > 0
    /\ cron.at = hist.lastReturn

\* ---- C25
\* what method 1 and method 3 of the resolver find at construction
FoundById ==
    IF chk.HOSTNAME # <<>> /\ chk.m1 = "ok" THEN GetContainer(chk.cs, chk.HOSTNAME)
    ELSE None

MatchesHostname(i) ==
    /\ chk.listing.ok
    /\ chk.inspect[chk.listing.items[i]].ok
    /\ chk.inspect[chk.listing.items[i]].hostname = chk.HOSTNAME

\* C25: the resolved name is the container found by looking HOSTNAME up as
\* an id; else CONTAINER_NAME as given; else the first listed container
\* whose Config.Hostname is HOSTNAME; else unknown, and it is the same in
\* every state of every cycle.
C25_ResolutionOrder ==
    IF FoundById # None THEN self_container_name = FoundById
    ELSE IF chk.CONTAINER_NAME # <<>> THEN self_container_name = chk.CONTAINER_NAME
    ELSE IF \E i \in DOMAIN chk.listing.items : MatchesHostname(i)
    THEN \E i \in DOMAIN chk.listing.items :
            /\ MatchesHostname(i)
            /\ \A j \in 1..(i - 1) : ~MatchesHostname(j)
            /\ self_container_name = chk.listing.items[i]
    ELSE self_container_name = None

\* a cycle has run in a process that the lookup by id found although
\* CONTAINER_NAME names another container
C25_Witness ==
    /\ FoundById = X
    /\ chk.CONTAINER_NAME = W
    /\ self_container_name = X
    /\ pc = "return"
    /\ cycle = MaxCycles

\* ---- C26
MatchesHost(id) ==
    /\ hostname # <<>>
    /\ StartsWith(id, hostname) \/ short_id(id) = hostname

\* C26: with self-identity unknown a container is treated as self only if
\* the host name is a prefix of its id or is its short id; when the host
\* name matches no container that way, the empty host name included, every
\* container is treated as foreign.
C26_UnknownIdentityFallback ==
    self_container_name = None =>
        \A i \in DOMAIN log :
            (log[i].op = "check" /\ log[i].self) => MatchesHost(log[i].id)

\* ---- C27
\* the optional fields of the request and the source each comes from
OptionalFields ==
    CopiedFields \cup {<<"Binds", "volumes">>, <<"Mounts", "mounts">>,
                       <<"RestartPolicy", "restart_policy">>}

\* the request value says what the source value says
SameValue(field, value, source) ==
    IF field = "Mounts"
    THEN /\ Len(value) = Len(source)
         /\ \A i \in DOMAIN source :
               /\ DOMAIN source[i] \subseteq DOMAIN value[i]
               /\ \A a \in DOMAIN source[i] : value[i][a] = source[i][a]
    ELSE value = source

\* C27: the request has an optional field exactly when the source value is
\* not empty, and then with that value; image, name and detach are always
\* there, and nothing else is.
C27_RequestCopiesNonEmpty ==
    (chk.built /\ ~chk.raised) =>
        /\ {"image", "name", "detach"} \subseteq DOMAIN chk.request
        /\ DOMAIN chk.request \subseteq {"image", "name", "detach"} \cup {f[2] : f \in OptionalFields}
        /\ \A f \in OptionalFields :
              /\ f[2] \in DOMAIN chk.request <=> chk.config[f[1]] # Empty
              /\ f[2] \in DOMAIN chk.request =>
                    SameValue(f[1], chk.request[f[2]], chk.config[f[1]])

\* ---- C28
\* C28: a cycle goes into the self-restart only if its own check of the
\* self container returned update_available; a flag left by an earlier
\* cycle never does it.
C28_RestartNeedsOwnDetection ==
    (\/ pc = "self_restart"
     \/ \E i \in DOMAIN log : log[i].op \in {"self_restart", "self_stop"})
        => SelfCheckedWithUpdate

\* ---- C29
\* C29: right after a check that returned up_to_date the container runs the
\* image its reference resolves to locally; in particular a container left
\* on the old image after a pull is found update_available again.
C29_UpToDateMeansSameImage ==
    (log # <<>> /\ log[Len(log)].op = "check" /\ log[Len(log)].res = "up_to_date") =>
        LET e == log[Len(log)]
        IN  containers[e.name].img = Resolve(localTag, e.ref)

\* ---- C30
\* C30: in every report handed to the webhook sender containers_skipped is
\* the number of skipped entries, containers_failed the number of error
\* entries and containers_checked the number of all entries, so that
\* updated + skipped + failed never exceeds checked.
C30_CountersMatchReports ==
    \A i \in DOMAIN sent :
        LET rep == sent[i]
        IN  /\ rep.containers_skipped = Cardinality(WithStatus(rep, "skipped"))
            /\ rep.containers_failed = Cardinality(WithStatus(rep, "error"))
            /\ rep.containers_checked = Len(rep.container_reports)
            /\ rep.containers_updated + rep.containers_skipped + rep.containers_failed
                  <= rep.containers_checked

====
